---- MODULE Spec2Model ----
(***************************************************************************)
(* Model of decompress.RoundTripper (roundtripper.go): the Content-Encoding *)
(* chain resolution of RoundTrip, the cascadeReadCloser it builds, and the  *)
(* caller's use of the result (read the body to completion, close it).      *)
(*                                                                          *)
(* Strings are sequences of atoms: an encoding name ("gzip", "zstd", ...)   *)
(* is one atom, "," and " " are atoms of their own, so strings.Split and    *)
(* strings.TrimSpace work on the header as they do on its characters.       *)
(* Byte streams are sequences of integers.  A codec is modelled by its      *)
(* framing: a two byte header (the codec's magic, the payload length) and   *)
(* the payload; a decoder checks the magic and delivers the payload, so     *)
(* decoders of different codecs do not commute and a decoder applied to a   *)
(* stream of another codec fails.                                           *)
(***************************************************************************)
EXTENDS Integers, Sequences, FiniteSets, TLC

\* ---------------------------------------------------------------- bounds
\* number of comma separated tokens of a generated Content-Encoding header
MaxTokens == 2
\* length of a generated plaintext
MaxPlain == 1

PlainBytes == {0, 1}
Codecs == {"gzip", "deflate", "br"}
Names == {"gzip", "deflate", "br", "identity", "zstd", "compress"}

Min(a, b) == IF a < b THEN a ELSE b
Max(a, b) == IF a > b THEN a ELSE b

RECURSIVE Reverse(_)
Reverse(s) == IF s = <<>> THEN <<>> ELSE Append(Reverse(Tail(s)), Head(s))

\* ------------------------------------------------------- string helpers
\* strconv.Itoa, as the digits of n
Digit(d) == <<"0", "1", "2", "3", "4", "5", "6", "7", "8", "9">>[d + 1]

RECURSIVE Itoa(_)
Itoa(n) == IF n < 10 THEN <<Digit(n)>> ELSE Append(Itoa(n \div 10), Digit(n % 10))

\* strings.Split(s, ","): one more segment than there are separators
RECURSIVE Split(_)
Split(s) ==
  IF \A j \in 1..Len(s) : s[j] # ","
    THEN <<s>>
    ELSE LET j == CHOOSE k \in 1..Len(s) : s[k] = "," /\ \A m \in 1..(k - 1) : s[m] # ","
         IN  <<SubSeq(s, 1, j - 1)>> \o Split(SubSeq(s, j + 1, Len(s)))

\* strings.TrimSpace(s): leading and trailing white space removed
TrimSpaceNone(s) == s

RECURSIVE TrimSpace(_)
TrimSpace(s) ==
  IF s # <<>> /\ Head(s) = " " THEN TrimSpace(Tail(s))
  ELSE IF s # <<>> /\ s[Len(s)] = " " THEN TrimSpace(SubSeq(s, 1, Len(s) - 1))
  ELSE s

\* ----------------------------------------------------------------- codecs
\* first byte of a stream of the codec
Magic(c) == CASE c = "gzip" -> 31 [] c = "deflate" -> 120 [] c = "br" -> 206

\* length of a codec's stream header (magic, payload length)
HdrLen == 2

\* gzipBytes, deflateBytes, brotliBytes of the tests: the compressed form of b
Compress(c, b) == <<Magic(c), Len(b)>> \o b

\* the body a server produces by applying the codecs of `applied`, first to last
RECURSIVE CompressAll(_, _)
CompressAll(applied, b) ==
  IF applied = <<>> THEN b
  ELSE CompressAll(Tail(applied), Compress(Head(applied), b))

\* what a decoder of codec c delivers when it reads the stream `in` to its end:
\* the payload, and whether the read ended with an error (bad header, or the
\* stream below ended before the payload was complete)
Decode(c, in) ==
  IF Len(in) < HdrLen \/ in[1] # Magic(c)
    THEN [data |-> <<>>, err |-> TRUE]
    ELSE IF Len(in) - HdrLen >= in[2]
      THEN [data |-> SubSeq(in, HdrLen + 1, HdrLen + in[2]), err |-> FALSE]
      ELSE [data |-> SubSeq(in, HdrLen + 1, Len(in)), err |-> TRUE]

\* gzip.NewReader reads and checks the gzip header of the stream it is given
GzipHeaderOK(in) == Len(in) >= HdrLen /\ in[1] = Magic("gzip")

\* ------------------------------------------------------------ http.Header
\* Header.Get: the value of the key, "" when the key is absent
Get(h, k) == IF k \in DOMAIN h THEN h[k] ELSE <<>>

\* Header.Del: the header without the key
Del(h, k) == [x \in (DOMAIN h) \ {k} |-> h[x]]

\* newResponse of the tests: the inner transport's response for a body and a
\* Content-Encoding value (the key is not set when the value is empty)
newResponse(body, present, contentEncoding) ==
  [Status |-> "200 OK",
   Header |-> IF present
                THEN [k \in {"Content-Length", "Content-Type", "Content-Encoding"} |->
                        CASE k = "Content-Length" -> Itoa(Len(body))
                          [] k = "Content-Type" -> <<"text/plain">>
                          [] k = "Content-Encoding" -> contentEncoding]
                ELSE [k \in {"Content-Length", "Content-Type"} |->
                        CASE k = "Content-Length" -> Itoa(Len(body))
                          [] k = "Content-Type" -> <<"text/plain">>],
   Body |-> <<>>,
   ContentLength |-> Len(body),
   Uncompressed |-> FALSE]

\* ------------------------------------------------------ cascadeReadCloser
\* A body is the sequence of its decoder layers, innermost first; the empty
\* sequence is the raw response body itself.
\* &cascadeReadCloser{readFrom: r, cascade: body}
WrapGzipReader(body, c) == Append(body, "gzip")

Wrap(body, c) == Append(body, c)

\* cascadeReadCloser.Read to the end of the stream: each layer decodes what
\* the layer below it delivers, the innermost layer reads the raw body
RECURSIVE StreamOf(_, _)
StreamOf(body, raw) ==
  IF body = <<>> THEN [data |-> raw, err |-> FALSE]
  ELSE Decode(body[Len(body)], StreamOf(SubSeq(body, 1, Len(body) - 1), raw).data)

\* errors of Close are the sequences of the closes that failed (0: the raw
\* body, k: the decoder of layer k), in the order of the message; <<>> is nil
CloseErrFirstOnly(rerr, cerr) ==
  IF rerr # <<>> THEN rerr
  ELSE IF cerr # <<>> THEN cerr
  ELSE <<>>

CloseErr(rerr, cerr) ==
  IF rerr # <<>> /\ cerr # <<>> THEN rerr \o cerr
  ELSE IF rerr # <<>> THEN rerr
  ELSE IF cerr # <<>> THEN cerr
  ELSE <<>>

\* Close of the raw response body
BodyClose(failing) ==
  [log |-> <<0>>, err |-> IF 0 \in failing THEN <<0>> ELSE <<>>]

\* Close of layer k of the cascade: the decoder, then the stream below it
RECURSIVE cascadeCloseShortCircuit(_, _)
cascadeCloseShortCircuit(k, failing) ==
  LET rerr == IF k \in failing THEN <<k>> ELSE <<>>
  IN  IF rerr # <<>> THEN [log |-> <<k>>, err |-> rerr]
      ELSE LET c == IF k = 1 THEN BodyClose(failing)
                    ELSE cascadeCloseShortCircuit(k - 1, failing)
           IN  [log |-> <<k>> \o c.log, err |-> CloseErr(rerr, c.err)]

RECURSIVE cascadeClose(_, _)
cascadeClose(k, failing) ==
  LET rerr == IF k \in failing THEN <<k>> ELSE <<>>
      c == IF k = 1 THEN BodyClose(failing) ELSE cascadeClose(k - 1, failing)
  IN  [log |-> <<k>> \o c.log, err |-> CloseErr(rerr, c.err)]

\* the closes that can fail: the raw body, gzip and deflate readers; a brotli
\* reader is wrapped in io.NopCloser, whose Close returns nil
Closables(body) == {0} \cup {k \in 1..Len(body) : body[k] # "br"}

\* --------------------------------------------------------------- RoundTrip
\* encoding := strings.TrimSpace(encodings[i]), i the index of the Go slice
EncodingAtForward(encodings, i) == TrimSpace(encodings[Len(encodings) - i])

EncodingAt(encodings, i) == TrimSpace(encodings[i + 1])

\* case "identity", "": nop
IsNopIdentityOnly(encoding) == encoding = <<"identity">>

IsNop(encoding) == encoding \in {<<"identity">>, <<>>}

Outcome(kind, body, decompressed, gzipRead, encoding) ==
  [kind |-> kind, body |-> body, decompressed |-> decompressed,
   gzipRead |-> gzipRead, encoding |-> encoding]

\* the loop over the encodings, from index i down to 0
RECURSIVE Resolve(_, _, _, _, _, _)
Resolve(encodings, i, body, decompressed, gzipRead, raw) ==
  IF i < 0 THEN Outcome("done", body, decompressed, gzipRead, <<>>)
  ELSE
    LET encoding == EncodingAt(encodings, i)
    IN  CASE encoding = <<"gzip">> ->
               IF GzipHeaderOK(StreamOf(body, raw).data)
                 THEN Resolve(encodings, i - 1, Wrap(body, "gzip"), TRUE, TRUE, raw)
                 ELSE Outcome("gzip", body, TRUE, TRUE, encoding)
          [] encoding = <<"deflate">> ->
               Resolve(encodings, i - 1, Wrap(body, "deflate"), TRUE, gzipRead, raw)
          [] encoding = <<"br">> ->
               Resolve(encodings, i - 1, Wrap(body, "br"), TRUE, gzipRead, raw)
          [] encoding \notin {<<"gzip">>, <<"deflate">>, <<"br">>} /\ IsNop(encoding) ->
               Resolve(encodings, i - 1, body, decompressed, gzipRead, raw)
          [] OTHER ->
               Outcome("unsupported", body, decompressed, gzipRead, encoding)

\* the response as RoundTrip leaves it after decompressing
DecompressedKeepLength(res, body) ==
  [res EXCEPT !.Body = body, !.Uncompressed = TRUE, !.ContentLength = -1,
              !.Header = Del(res.Header, "Content-Encoding")]

Decompressed(res, body) ==
  [res EXCEPT !.Body = body, !.Uncompressed = TRUE, !.ContentLength = -1,
              !.Header = Del(Del(res.Header, "Content-Encoding"), "Content-Length")]

\* error values
NoErr == [kind |-> "nil", Original |-> "nil", Encoding |-> <<>>]
TransportErr == [kind |-> "transport", Original |-> "nil", Encoding |-> <<>>]
GzipErr == [kind |-> "gzip", Original |-> "nil", Encoding |-> <<>>]
ErrUnsupportedEncoding(original, encoding) ==
  [kind |-> "unsupported", Original |-> original, Encoding |-> encoding]

\* ------------------------------------------------------ header vocabulary
\* the comma separated tokens of a header value, white space trimmed
Cuts(s) == {0, Len(s) + 1} \cup {j \in 1..Len(s) : s[j] = ","}
Strip(t) ==
  LET ns == {j \in 1..Len(t) : t[j] # " "}
  IN  IF ns = {} THEN <<>>
      ELSE SubSeq(t, CHOOSE a \in ns : \A b \in ns : a <= b,
                     CHOOSE a \in ns : \A b \in ns : a >= b)
HeaderTokens(s) ==
  LET cuts == Cuts(s)
      cut(k) == CHOOSE c \in cuts : Cardinality({d \in cuts : d < c}) = k
  IN  [k \in 1..(Cardinality(cuts) - 1) |->
         Strip(SubSeq(s, cut(k - 1) + 1, cut(k) - 1))]

\* ------------------------------------------------------------------ state
VARIABLES
  pc,          \* "start", "returned", "read", "closed"
  response,    \* the http.Response object of the inner transport ("res")
  rawData,     \* the bytes of the raw response body
  rawPos,      \* how many of them have been read from the raw body
  retRes,      \* RoundTrip's first result: "nil" or "res"
  retErr,      \* RoundTrip's second result
  readResult,  \* what the caller's io.ReadAll of the body returned
  closeLog,    \* the closes made, in order (0: raw body, k: decoder of layer k)
  closeErr,    \* what the caller's Close of the body returned
  failing,     \* the closes that fail
  plaintext,   \* the plaintext the server compressed
  applied,     \* the codecs the server applied to it, first to last
  orig,        \* the response as it was before the call
  origTokens   \* the trimmed tokens of its Content-Encoding value

vars == <<pc, response, rawData, rawPos, retRes, retErr, readResult, closeLog,
          closeErr, failing, plaintext, applied, orig, origTokens>>

\* ----------------------------------------------------------------- inputs
Plaintexts == UNION {[1..n -> PlainBytes] : n \in 0..MaxPlain}

\* a token of a header as a server writes it: a name or nothing, with or
\* without white space around it
Paddings(t) == {t, <<" ">> \o t, t \o <<" ">>}
TokenTexts == UNION {Paddings(<<n>>) : n \in Names} \cup Paddings(<<>>)
TokenLists == UNION {[1..n -> TokenTexts] : n \in 1..MaxTokens}

RECURSIVE Join(_)
Join(l) == IF Len(l) = 1 THEN l[1] ELSE l[1] \o <<",">> \o Join(Tail(l))

\* the codecs a token list names, left to right
RECURSIVE CodecsOf(_)
CodecsOf(l) ==
  IF l = <<>> THEN <<>>
  ELSE (IF \E c \in Codecs : l[1] \in Paddings(<<c>>)
          THEN <<CHOOSE c \in Codecs : l[1] \in Paddings(<<c>>)>> ELSE <<>>)
       \o CodecsOf(Tail(l))

\* the server compressed the plaintext as the header says, left to right, or
\* in the opposite order, or not at all
AppliedFor(l) == {CodecsOf(l), Reverse(CodecsOf(l)), <<>>}

InitWith(present, ce, app, p) ==
  /\ pc = "start"
  /\ plaintext = p
  /\ applied = app
  /\ rawData = CompressAll(app, p)
  /\ rawPos = 0
  /\ response = newResponse(CompressAll(app, p), present, ce)
  /\ orig = newResponse(CompressAll(app, p), present, ce)
  /\ origTokens = HeaderTokens(ce)
  /\ retRes = "nil"
  /\ retErr = NoErr
  /\ readResult = [data |-> <<>>, err |-> FALSE]
  /\ closeLog = <<>>
  /\ closeErr = <<>>
  /\ failing = {}

Init ==
  \E p \in Plaintexts :
    \/ \E app \in {<<>>} \cup {<<c>> : c \in Codecs} : InitWith(FALSE, <<>>, app, p)
    \/ \E l \in TokenLists : \E app \in AppliedFor(l) : InitWith(TRUE, Join(l), app, p)

\* ---------------------------------------------------------------- actions
\* what a gzip.NewReader, directly or through the layers below it, may leave
\* the raw body's read position at: it reads through a bufio.Reader, which
\* takes at least the stream header and at most all there is
Consumed(pos, raw) == Max(pos, Min(HdrLen, Len(raw))) .. Len(raw)

\* w.RoundTrip(req) fails: RoundTrip returns nil and the error
RoundTripTransportError ==
  /\ pc = "start"
  /\ pc' = "returned"
  /\ retRes' = "nil"
  /\ retErr' = TransportErr
  /\ UNCHANGED <<response, rawData, rawPos, readResult, closeLog, closeErr, failing,
                 plaintext, applied, orig, origTokens>>

\* w.RoundTrip(req) returns the response: the rest of RoundTrip
RoundTrip ==
  /\ pc = "start"
  /\ pc' = "returned"
  /\ LET ce == Get(response.Header, "Content-Encoding")
         encodings == Split(ce)
         r == Resolve(encodings, Len(encodings) - 1, response.Body, FALSE, FALSE, rawData)
     IN  IF Len(ce) = 0
           THEN /\ retRes' = "res"
                /\ retErr' = NoErr
                /\ UNCHANGED <<response, rawPos>>
           ELSE /\ IF r.gzipRead
                     THEN rawPos' \in Consumed(rawPos, rawData)
                     ELSE rawPos' = rawPos
                /\ CASE r.kind = "gzip" ->
                          /\ retRes' = "nil"
                          /\ retErr' = GzipErr
                          /\ UNCHANGED response
                     [] r.kind = "unsupported" ->
                          /\ retRes' = "nil"
                          /\ retErr' = ErrUnsupportedEncoding("res", r.encoding)
                          /\ UNCHANGED response
                     [] r.kind = "done" /\ ~r.decompressed ->
                          /\ retRes' = "res"
                          /\ retErr' = NoErr
                          /\ UNCHANGED response
                     [] r.kind = "done" /\ r.decompressed ->
                          /\ retRes' = "res"
                          /\ retErr' = NoErr
                          /\ response' = Decompressed(response, r.body)
  /\ UNCHANGED <<rawData, readResult, closeLog, closeErr, failing, plaintext, applied, orig, origTokens>>

\* the body the caller holds: the returned response's, or that of the
\* Original of an ErrUnsupportedEncoding
HasBody == retRes = "res" \/ (retErr.kind = "unsupported" /\ retErr.Original = "res")

\* the caller reads the body to its end (io.ReadAll)
ReadAll ==
  /\ pc = "returned"
  /\ HasBody
  /\ pc' = "read"
  /\ IF response.Body = <<>>
       THEN /\ readResult' = [data |-> SubSeq(rawData, rawPos + 1, Len(rawData)), err |-> FALSE]
            /\ rawPos' = Len(rawData)
       ELSE /\ readResult' = StreamOf(response.Body, rawData)
            /\ rawPos' \in Consumed(rawPos, rawData)
  /\ UNCHANGED <<response, rawData, retRes, retErr, closeLog, closeErr, failing,
                 plaintext, applied, orig, origTokens>>

\* the caller closes the body, once; any of the closes may fail
Close ==
  /\ pc = "read"
  /\ pc' = "closed"
  /\ \E f \in SUBSET Closables(response.Body) :
       LET c == IF response.Body = <<>> THEN BodyClose(f)
                ELSE cascadeClose(Len(response.Body), f)
       IN  /\ failing' = f
           /\ closeLog' = closeLog \o c.log
           /\ closeErr' = c.err
  /\ UNCHANGED <<response, rawData, rawPos, retRes, retErr, readResult,
                 plaintext, applied, orig, origTokens>>

Next == RoundTripTransportError \/ RoundTrip \/ ReadAll \/ Close

Spec == Init /\ [][Next]_vars

\* ------------------------------------------------- vocabulary of the claims
\* the header the inner transport's response had before the call
OrigCE == IF "Content-Encoding" \in DOMAIN orig.Header
            THEN orig.Header["Content-Encoding"] ELSE <<>>

IsCodecToken(t) == t \in {<<"gzip">>, <<"deflate">>, <<"br">>}
IsRecognized(t) == IsCodecToken(t) \/ t \in {<<"identity">>, <<>>}
\* the codecs the header names, left to right
OrigCodecs ==
  LET c == SelectSeq(origTokens, IsCodecToken) IN [k \in 1..Len(c) |-> c[k][1]]
AllRecognized == \A k \in 1..Len(origTokens) : IsRecognized(origTokens[k])
\* the inner transport returned a response and RoundTrip has returned
Returned == pc # "start" /\ retErr.kind # "transport"
WasRead == pc \in {"read", "closed"}
RawClosed == \E k \in 1..Len(closeLog) : closeLog[k] = 0

\* ------------------------------------------------------------------ claims
\* C1: when every token of the header is gzip, deflate, br, identity or blank
\* and the body is the plaintext with the header's codecs applied left to
\* right (leftmost first, rightmost last and outermost), RoundTrip returns the
\* response without error, the decoders are layered right to left with the
\* rightmost token's decoder reading the raw body, and reading the returned
\* body to its end yields exactly the plaintext.
C1_DecodesHeaderOrder ==
  (Returned /\ AllRecognized /\ applied = OrigCodecs) =>
    /\ retRes = "res"
    /\ retErr = NoErr
    /\ response.Body = Reverse(OrigCodecs)
    /\ WasRead => readResult = [data |-> plaintext, err |-> FALSE]

C1_Witness ==
  /\ pc = "read"
  /\ AllRecognized
  /\ applied = OrigCodecs
  /\ Len(applied) = 2
  /\ applied[1] # applied[2]
  /\ plaintext # <<>>
  /\ readResult = [data |-> plaintext, err |-> FALSE]

\* C2 as stated: for the header `gzip, deflate` and a body that is the
\* plaintext deflate-compressed first and then gzip-compressed, RoundTrip
\* succeeds and the returned body reads as the plaintext.
C2_DeflateThenGzip ==
  (Returned /\ OrigCE = <<"gzip", ",", " ", "deflate">>
            /\ applied = <<"deflate", "gzip">>) =>
    /\ retRes = "res"
    /\ retErr = NoErr
    /\ WasRead => readResult = [data |-> plaintext, err |-> FALSE]

\* C2 amended: for the header `gzip, deflate` and a body that is the plaintext
\* gzip-compressed first and then deflate-compressed (deflate outermost),
\* RoundTrip succeeds and the returned body reads as the plaintext.
C2_GzipThenDeflate ==
  (Returned /\ OrigCE = <<"gzip", ",", " ", "deflate">>
            /\ applied = <<"gzip", "deflate">>) =>
    /\ retRes = "res"
    /\ retErr = NoErr
    /\ WasRead => readResult = [data |-> plaintext, err |-> FALSE]

C2_Witness ==
  /\ pc = "read"
  /\ OrigCE = <<"gzip", ",", " ", "deflate">>
  /\ applied = <<"gzip", "deflate">>
  /\ rawData = Compress("deflate", Compress("gzip", plaintext))
  /\ plaintext # <<>>
  /\ readResult = [data |-> plaintext, err |-> FALSE]

\* C3: when RoundTrip returns a response without error for a header that names
\* at least one of gzip, deflate, br, the response has Uncompressed = true,
\* ContentLength = -1, no Content-Encoding and no Content-Length header, its
\* Body is the cascading stream, and every other header (and the status) is as
\* the inner transport returned it.
C3_DecompressedMetadata ==
  (Returned /\ retRes = "res" /\ OrigCodecs # <<>>) =>
    /\ response.Uncompressed = TRUE
    /\ response.ContentLength = -1
    /\ "Content-Encoding" \notin DOMAIN response.Header
    /\ "Content-Length" \notin DOMAIN response.Header
    /\ response.Body # <<>>
    /\ Len(response.Body) = Len(OrigCodecs)
    /\ DOMAIN response.Header =
         (DOMAIN orig.Header) \ {"Content-Encoding", "Content-Length"}
    /\ \A k \in DOMAIN response.Header : response.Header[k] = orig.Header[k]
    /\ response.Status = orig.Status

C3_Witness ==
  /\ pc = "returned"
  /\ retRes = "res"
  /\ Len(OrigCodecs) = 2
  /\ response.Uncompressed
  /\ "Content-Type" \in DOMAIN response.Header
  /\ "Content-Length" \in DOMAIN orig.Header

\* C4: when the inner transport succeeds and the Content-Encoding header is
\* absent, empty, or made of `identity` and blank tokens only, RoundTrip
\* returns the inner transport's response with nothing changed: the body is
\* not wrapped and reads as the input bytes, Uncompressed stays false, and
\* ContentLength and the headers keep their values.
C4_IdentityUntouched ==
  (Returned /\ \A k \in 1..Len(origTokens) : origTokens[k] \in {<<"identity">>, <<>>}) =>
    /\ retRes = "res"
    /\ retErr = NoErr
    /\ response = orig
    /\ response.Body = <<>>
    /\ response.Uncompressed = FALSE
    /\ pc = "returned" => rawPos = 0
    /\ WasRead => readResult = [data |-> rawData, err |-> FALSE]

C4_Witness ==
  /\ pc = "read"
  /\ \A k \in 1..Len(origTokens) : origTokens[k] \in {<<"identity">>, <<>>}
  /\ \E k \in 1..Len(origTokens) : origTokens[k] = <<"identity">>
  /\ \E k \in 1..Len(origTokens) : origTokens[k] = <<>>
  /\ rawData # <<>>
  /\ readResult = [data |-> rawData, err |-> FALSE]
  /\ response = orig

C6_OriginalIntact ==
  (Returned /\ retErr.kind = "unsupported") =>
    /\ retErr.Original = "res"
    /\ response = orig
    /\ pc = "returned" => rawPos = 0
    /\ WasRead => readResult = [data |-> rawData, err |-> FALSE]

\* C7 as stated: the Encoding of an ErrUnsupportedEncoding equals the value
\* the Content-Encoding header had before the call.
C7_EncodingIsHeader ==
  (Returned /\ retErr.kind = "unsupported") => retErr.Encoding = OrigCE

\* C8: one Close of a cascading stream of N >= 1 layers closes every decoder
\* once and the raw body once, outermost first and the raw body last,
\* whichever of these closes fail.
C8_ClosesEveryLayerOnce ==
  (pc = "closed" /\ response.Body # <<>>) =>
    LET N == Len(response.Body)
    IN  closeLog = [k \in 1..(N + 1) |-> N + 1 - k]

C8_Witness ==
  /\ pc = "closed"
  /\ Len(response.Body) = 2
  /\ failing = {2}
  /\ closeLog = <<2, 1, 0>>

\* C9: Close of a cascading stream returns nil when no close of the chain
\* failed, the one failing close's error when one failed, and otherwise an
\* error naming every failed close, in the order of the closes; so it returns
\* an error exactly when a close failed.
C9_CloseErrorAggregates ==
  (pc = "closed" /\ response.Body # <<>>) =>
    /\ (closeErr # <<>>) <=> (failing # {})
    /\ Len(closeErr) = Cardinality(failing)
    /\ \A k \in failing : \E j \in 1..Len(closeErr) : closeErr[j] = k
    /\ \A i, j \in 1..Len(closeErr) : i < j => closeErr[i] > closeErr[j]

C9_Witness ==
  /\ pc = "closed"
  /\ Len(response.Body) = 2
  /\ failing = {0, 2}
  /\ closeErr = <<2, 0>>

\* C10 as stated: once the inner transport has returned a response, the raw
\* body is, after RoundTrip returns, closed or still reachable by the caller
\* (through the returned response or the Original of ErrUnsupportedEncoding).
C10_BodyNotLost ==
  Returned => (RawClosed \/ HasBody)

====
